---------------------------- MODULE Spec2Model ----------------------------
(* A model of vicissicalc (src/vicissicalc.c): the formula evaluator      *)
(* (lexer, precedence-climbing parser), the cell store with its on-demand *)
(* recalculation, and the reactor loop that drives them.                   *)
(*                                                                         *)
(* A text is a sequence of one-character strings.  A Value (a C double)    *)
(* is an exact rational [n, d] in lowest terms with d > 0; the formulas    *)
(* the model draws stay in the range where double arithmetic agrees with   *)
(* it on the two tests the code makes of a Value: `rhs == 0` and           *)
(* `r == (int)r`.  A plaint (a const char * into static memory) is the     *)
(* string it points to; the NULL pointer is the string "NULL".             *)
EXTENDS Integers, Sequences, FiniteSets, TLC

VARIABLES
    cells,      \* cells[r][c] = [text, plaint, value]: the grid (and the
                \*          history fields from and under)
    the_plaint, \* the first message raised since the last frame
    view,       \* "values" or "formulas"
    row, col,   \* the cursor
    pc,         \* where main is: "main", "show", "key", "done"
    log,        \* history: the events of the latest render pass
    ncalc,      \* history: ncalc[r][c] = recalculations since text_updated
    seen,       \* history: seen[r][c] = what top-level get_value returned
                \*          to the latest pass and to the one before
    last,       \* history: the handler that ran last
    nedits,     \* history: committed edits so far (bounded by MaxEdits)
    saved       \* the file write_file wrote: [file, from], file = <<>> when
                \*          there is none, from (history) the texts written

vars == <<cells, the_plaint, view, row, col, pc, log, ncalc, seen, last, nedits,
          saved>>

-----------------------------------------------------------------------------
(* Bounds.  The source's grid is 20 x 4; the model's is nrows x ncols.     *)

nrows == 2
ncols == 2
MaxEdits == 1
MaxLit == 2
MaxText == 2

Rows == 0 .. (nrows - 1)
Cols == 0 .. (ncols - 1)
Cells == Rows \X Cols

-----------------------------------------------------------------------------
(* Values: C doubles as exact rationals.                                   *)

Abs(x) == IF x < 0 THEN -x ELSE x

RECURSIVE gcd(_, _)
gcd(a, b) == IF b = 0 THEN a ELSE gcd(b, a % b)

Rat(n, d) ==
    LET g == gcd(Abs(n), Abs(d))
        s == IF d < 0 THEN -1 ELSE 1
    IN  [n |-> s * (n \div g), d |-> s * (d \div g)]

FromInt(i) == [n |-> i, d |-> 1]
Zero == FromInt(0)

Add(x, y) == Rat(x.n * y.d + y.n * x.d, x.d * y.d)
Neg(x)    == [n |-> -x.n, d |-> x.d]
Sub(x, y) == Add(x, Neg(y))
Mul(x, y) == Rat(x.n * y.n, x.d * y.d)
Div(x, y) == Rat(x.n * y.d, x.d * y.n)

\* (int)x: truncation toward zero.
IntCast(x) == IF x.n >= 0 THEN x.n \div x.d ELSE -((-x.n) \div x.d)

\* fmod(x, y): x - y * trunc(x / y), the sign of x.
Fmod(x, y) == Sub(x, Mul(y, FromInt(IntCast(Div(x, y)))))

\* pow(x, y) for an integer y; pow(x, 0) is 1, also for x = 0.
RECURSIVE PowNat(_, _)
PowNat(x, k) == IF k = 0 THEN FromInt(1) ELSE Mul(x, PowNat(x, k - 1))

Pow(x, y) ==
    CASE y.d = 1 /\ y.n >= 0 -> PowNat(x, y.n)
      [] y.d = 1 /\ y.n < 0  -> Div(FromInt(1), PowNat(x, -y.n))

-----------------------------------------------------------------------------
(* Plaints.                                                                *)

NULL       == "NULL"
stale      == "Stale"
cycle      == "Cycle"
no_formula == "No value for referred cell"

-----------------------------------------------------------------------------
(* The lexer.                                                              *)

Blanks == {" "}
Digits == {"0", "1", "2", "3", "4", "5", "6", "7", "8", "9"}
DigitValue(ch) ==
    CASE ch = "0" -> 0 [] ch = "1" -> 1 [] ch = "2" -> 2 [] ch = "3" -> 3
      [] ch = "4" -> 4 [] ch = "5" -> 5 [] ch = "6" -> 6 [] ch = "7" -> 7
      [] ch = "8" -> 8 [] ch = "9" -> 9

RECURSIVE skip_blanks(_)
skip_blanks(s) ==
    IF s # <<>> /\ Head(s) \in Blanks THEN skip_blanks(Tail(s)) ELSE s

\* The length of the longest prefix of s made of digits.
RECURSIVE DigitRun(_)
DigitRun(s) ==
    IF s # <<>> /\ Head(s) \in Digits THEN 1 + DigitRun(Tail(s)) ELSE 0

RECURSIVE DigitsValue(_, _)
DigitsValue(s, acc) ==
    IF s = <<>> THEN acc ELSE DigitsValue(Tail(s), 10 * acc + DigitValue(Head(s)))

RECURSIVE Pow10(_)
Pow10(k) == IF k = 0 THEN 1 ELSE 10 * Pow10(k - 1)

\* strtod on a string that starts with a digit: digits, then optionally a
\* point and more digits.  [value, len]: the number and how much was read.
strtod(s) ==
    LET i    == DigitRun(s)
        rest == SubSeq(s, i + 1, Len(s))
        f    == IF rest # <<>> /\ Head(rest) = "." THEN DigitRun(Tail(rest)) ELSE 0
        frac == SubSeq(s, i + 2, i + 1 + f)
        dot  == rest # <<>> /\ Head(rest) = "."
    IN  [value |-> Rat(DigitsValue(SubSeq(s, 1, i), 0) * Pow10(f) + DigitsValue(frac, 0),
                       Pow10(f)),
         len   |-> IF dot THEN i + 1 + f ELSE i]

EOI == "end of input"   \* token 0
NUMBER == "0"           \* token '0'
TokenChars == {"+", "-", "*", "/", "%", "^", "@", "c", "r", "(", ")"}

\* fail with the latest plaint kept in place of the first.
fail_overwriting(e, plaint) ==
    [e EXCEPT !.plaint = plaint, !.s = <<>>, !.fails = Append(@, plaint)]

\* e.fails is history: every plaint fail was called with, in order.
fail(e, plaint) ==
    IF e.plaint = NULL
    THEN [e EXCEPT !.plaint = plaint, !.s = <<>>, !.fails = Append(@, plaint)]
    ELSE [e EXCEPT !.fails = Append(@, plaint)]

lex(e) ==
    LET s == skip_blanks(e.s) IN
    IF s = <<>> THEN [e EXCEPT !.s = s, !.token = EOI]
    ELSE IF Head(s) \in Digits
    THEN LET num == strtod(s)
         IN  [e EXCEPT !.token = NUMBER, !.token_value = num.value,
                       !.s = SubSeq(s, num.len + 1, Len(s))]
    ELSE IF Head(s) \in TokenChars
    THEN [e EXCEPT !.token = Head(s), !.s = Tail(s)]
    ELSE [fail([e EXCEPT !.s = s], "Syntax error: unknown token type")
            EXCEPT !.token = EOI]

-----------------------------------------------------------------------------
(* The machine state the evaluator runs on: m = [cells, the_plaint] and    *)
(* the history [log, ncalc, seen].  Every operator below that the C code   *)
(* gives side effects takes m (and the Evaluator e it has a pointer to)    *)
(* and returns the new ones.                                               *)

Event(ev, r, c, op, a, b, plaint, fails) ==
    [ev |-> ev, row |-> r, col |-> c, op |-> op, a |-> a, b |-> b,
     plaint |-> plaint, fails |-> fails]

\* cells[r][c].from is history: the grid's texts when the cell's plaint was
\* last written by recalculate (<<>> since text_updated).
Texts(m) == [r \in Rows |-> [c \in Cols |-> m.cells[r][c].text]]

Logged(m, event) == [m EXCEPT !.log = Append(@, event)]

\* cells[r][c].under is history: the cells whose recalculate was on the call
\* stack when recalculate(r, c) was entered ({} since text_updated).
InProgress(m) ==
    {<<m.log[j].row, m.log[j].col>> :
        j \in {k \in 1 .. Len(m.log) : m.log[k].ev = "recalculate"}}
    \ {<<m.log[j].row, m.log[j].col>> :
        j \in {k \in 1 .. Len(m.log) : m.log[k].ev = "recalculated"}}

oops(m, plaint) ==
    IF m.the_plaint = NULL THEN [m EXCEPT !.the_plaint = plaint] ELSE m

\* (unsigned)i < n for an int i: a negative i converts to a value >= 2^31.
UnsignedLess(i, n) == 0 <= i /\ i < n

\* NULL (the empty sequence) or the one-element sequence of the formula.
find_formula(s) ==
    LET t == skip_blanks(s) IN
    IF t # <<>> /\ Head(t) = "=" THEN <<Tail(t)>> ELSE <<>>

Infix == {"+", "-", "*", "/", "%", "^", "@"}

lp(rator) ==
    CASE rator \in {"+", "-"}      -> 1
      [] rator \in {"*", "/", "%"} -> 3
      [] rator = "^"               -> 5
      [] rator = "@"               -> 7

\* The table with ^ made left-associative.
rp_pow_left(rator) ==
    CASE rator \in {"+", "-"}      -> 2
      [] rator \in {"*", "/", "%"} -> 4
      [] rator = "^"               -> 6
      [] rator = "@"               -> 8

rp(rator) ==
    CASE rator \in {"+", "-"}      -> 2
      [] rator \in {"*", "/", "%"} -> 4
      [] rator = "^"               -> 5
      [] rator = "@"               -> 8

\* zero_divide returning 0 without recording the failure.
zero_divide_silent(e) == [e |-> e, v |-> Zero]

zero_divide(e) == [e |-> fail(e, "Divide by 0"), v |-> Zero]

(* The parser functions return [m, e, v]: the machine state and the        *)
(* Evaluator they leave, and the Value they return.  Where a C function    *)
(* goes on with the result of a call, the model hands that result to an    *)
(* operator for the rest of the function; `CHOOSE y \in {F(x) : x \in {call}}` *)
(* is F(call) with the call evaluated first, as the code runs it.          *)

RECURSIVE parse_factor(_, _)
RECURSIVE parse_expr(_, _, _)
RECURSIVE parse_expr_loop(_, _)
RECURSIVE apply(_, _, _, _, _)
RECURSIVE refer(_, _, _, _)
RECURSIVE get_value(_, _, _, _)
RECURSIVE recalculate(_, _, _)
RECURSIVE evaluate(_, _)

\* case '-', after the recursive call: return -parse_factor(e).
parse_factor_negated(f) == [m |-> f.m, e |-> f.e, v |-> Neg(f.v)]

\* case '(', after v = parse_expr(e, 0).
parse_factor_closing(x) ==
    [m |-> x.m,
     e |-> lex(IF x.e.token # ")" THEN fail(x.e, "Syntax error: expected ')'") ELSE x.e),
     v |-> x.v]

parse_factor(m, e) ==
    CASE e.token = NUMBER -> [m |-> m, e |-> lex(e), v |-> e.token_value]
      [] e.token = "-" -> parse_factor_negated(parse_factor(m, lex(e)))
      [] e.token = "c" -> [m |-> m, e |-> lex(e), v |-> FromInt(e.col)]
      [] e.token = "r" -> [m |-> m, e |-> lex(e), v |-> FromInt(e.row)]
      [] e.token = "(" -> parse_factor_closing(parse_expr(m, lex(e), 0))
      [] OTHER ->
            [m |-> m, e |-> lex(fail(e, "Syntax error: expected a factor")),
             v |-> Zero]

apply(m, e, rator, lhs, rhs) ==
    CASE rator = "+" -> [m |-> m, e |-> e, v |-> Add(lhs, rhs)]
      [] rator = "-" -> [m |-> m, e |-> e, v |-> Sub(lhs, rhs)]
      [] rator = "*" -> [m |-> m, e |-> e, v |-> Mul(lhs, rhs)]
      [] rator = "/" ->
            IF rhs = Zero
            THEN [m |-> m] @@ zero_divide(e)
            ELSE [m |-> m, e |-> e, v |-> Div(lhs, rhs)]
      [] rator = "%" ->
            IF rhs = Zero
            THEN [m |-> m] @@ zero_divide(e)
            ELSE [m |-> m, e |-> e, v |-> Fmod(lhs, rhs)]
      [] rator = "^" -> [m |-> m, e |-> e, v |-> Pow(lhs, rhs)]
      [] rator = "@" -> refer(m, e, lhs, rhs)
      [] OTHER       -> [m |-> m, e |-> e, v |-> Zero]

\* lhs = apply(e, rator, lhs, parse_expr(e, rp)), with rhs what parse_expr
\* returned; the log keeps the operands and the plaint apply found latched.
parse_expr_apply(rator, lhs, rhs) ==
    apply(Logged(rhs.m, Event("apply", rhs.e.row, rhs.e.col, rator, lhs, rhs.v,
                              rhs.e.plaint, <<>>)),
          rhs.e, rator, lhs, rhs.v)

\* The for (;;) of parse_expr, entered with x.v for lhs.
parse_expr_loop(x, precedence) ==
    IF x.e.token \notin Infix THEN x
    ELSE IF lp(x.e.token) < precedence THEN x
    ELSE CHOOSE y \in
             {parse_expr_loop(lhs, precedence) :
                  lhs \in {parse_expr_apply(x.e.token, x.v, rhs) :
                              rhs \in {parse_expr(x.m, lex(x.e), rp(x.e.token))}}} : TRUE

parse_expr(m, e, precedence) == parse_expr_loop(parse_factor(m, e), precedence)

\* evaluate after *result = parse_expr(e, 0): [m, e, plaint, result].
evaluate_end(x, e1) == [m |-> x.m, e |-> e1, plaint |-> e1.plaint, result |-> x.v]

evaluate_result(x) ==
    evaluate_end(x, IF x.e.token # EOI
                    THEN fail(x.e, "Syntax error: unexpected token")
                    ELSE x.e)

evaluate(m, e) ==
    CHOOSE y \in {evaluate_result(x) : x \in {parse_expr(m, lex(e), 0)}} : TRUE

\* recalculate from its provisional write on: the cell's plaint is cycle.
recalculate_begin(m, r, c) ==
    Logged([m EXCEPT !.cells[r][c].plaint = cycle,
                     !.cells[r][c].from = <<Texts(m)>>,
                     !.cells[r][c].under = InProgress(m),
                     !.ncalc[r][c] = @ + 1],
           Event("recalculate", r, c, m.cells[r][c].plaint, Zero, Zero, cycle, <<>>))

\* recalculate's last two lines, the final plaint written to the cell.
recalculate_end(m, r, c, fails) ==
    oops(Logged(m, Event("recalculated", r, c, "", m.cells[r][c].value, Zero,
                         m.cells[r][c].plaint, fails)),
         m.cells[r][c].plaint)

\* cell->plaint = evaluate(&cell->value, &evaluator), with x what evaluate
\* returned.
recalculate_store(x, r, c) ==
    recalculate_end([x.m EXCEPT !.cells[r][c].value = x.result,
                                !.cells[r][c].plaint = x.plaint],
                    r, c, x.e.fails)

\* The Evaluator with the row and the column exchanged.
Evaluator_transposed(r, c, formula) ==
    [row |-> c, col |-> r, token |-> EOI, token_value |-> Zero, s |-> formula,
     plaint |-> NULL, fails |-> <<>>]

Evaluator(r, c, formula) ==
    [row |-> r, col |-> c, token |-> EOI, token_value |-> Zero, s |-> formula,
     plaint |-> NULL, fails |-> <<>>]

\* recalculate returning as soon as it finds no formula, the provisional
\* plaint left in place.
recalculate_early_return(m, r, c) ==
    IF find_formula(m.cells[r][c].text) = <<>>
    THEN recalculate_begin(m, r, c)
    ELSE CHOOSE done \in
             {recalculate_store(x, r, c) :
                  x \in {evaluate(recalculate_begin(m, r, c),
                                  Evaluator(r, c, find_formula(m.cells[r][c].text)[1]))}} :
             TRUE

recalculate(m, r, c) ==
    IF find_formula(m.cells[r][c].text) = <<>>
    THEN recalculate_end([recalculate_begin(m, r, c)
                             EXCEPT !.cells[r][c].plaint = no_formula],
                         r, c, <<>>)
    ELSE CHOOSE done \in
             {recalculate_store(x, r, c) :
                  x \in {evaluate(recalculate_begin(m, r, c),
                                  Evaluator(r, c, find_formula(m.cells[r][c].text)[1]))}} :
             TRUE

\* get_value's return: [m, plaint, value], value being *value.
get_value_return(m, plaint, value, r, c) ==
    [m |-> Logged(m, Event("return", r, c, "", value, Zero, plaint, <<>>)),
     plaint |-> plaint, value |-> value]

\* get_value from `if (!cell->plaint) *value = cell->value` on.
get_value_cell(m, value, r, c) ==
    get_value_return(m, m.cells[r][c].plaint,
                     IF m.cells[r][c].plaint = NULL THEN m.cells[r][c].value
                     ELSE value,
                     r, c)

get_value_called(m, r, c) ==
    Logged(m, Event("get_value", r, c, "", Zero, Zero, NULL, <<>>))

\* get_value recalculating a cell that has no formula every time it is asked.
get_value_retries(m, value, r, c) ==
    IF ~UnsignedLess(r, nrows) \/ ~UnsignedLess(c, ncols)
    THEN get_value_return(get_value_called(m, r, c), "Cell out of range", value, r, c)
    ELSE IF m.cells[r][c].plaint \in {stale, no_formula}
    THEN CHOOSE g \in {get_value_cell(m1, value, r, c) :
                          m1 \in {recalculate(get_value_called(m, r, c), r, c)}} : TRUE
    ELSE get_value_cell(get_value_called(m, r, c), value, r, c)

\* get_value writing *value only from a cell it did not have to recalculate.
get_value_cached_only(m, value, r, c) ==
    IF ~UnsignedLess(r, nrows) \/ ~UnsignedLess(c, ncols)
    THEN get_value_return(get_value_called(m, r, c), "Cell out of range", value, r, c)
    ELSE IF m.cells[r][c].plaint = stale
    THEN CHOOSE g \in {get_value_return(m1, m1.cells[r][c].plaint, value, r, c) :
                          m1 \in {recalculate(get_value_called(m, r, c), r, c)}} : TRUE
    ELSE get_value_cell(get_value_called(m, r, c), value, r, c)

get_value(m, value, r, c) ==
    IF ~UnsignedLess(r, nrows) \/ ~UnsignedLess(c, ncols)
    THEN get_value_return(get_value_called(m, r, c), "Cell out of range", value, r, c)
    ELSE IF m.cells[r][c].plaint = stale
    THEN CHOOSE g \in {get_value_cell(m1, value, r, c) :
                          m1 \in {recalculate(get_value_called(m, r, c), r, c)}} : TRUE
    ELSE get_value_cell(get_value_called(m, r, c), value, r, c)

\* refer after get_value returned g: the plaint blanked unless it is
\* no_formula or cycle, then latched.
\* refer blanking the Cycle plaint with the others.
refer_plaint_blanks_cycle(plaint) ==
    IF plaint # NULL /\ plaint # no_formula THEN "" ELSE plaint

\* refer passing on the plaint it got, whatever it is.
refer_plaint_verbatim(plaint) == plaint

refer_plaint(plaint) ==
    IF plaint # NULL /\ plaint # no_formula /\ plaint # cycle THEN "" ELSE plaint

refer_result(e, g) ==
    [m |-> g.m,
     e |-> IF refer_plaint(g.plaint) # NULL THEN fail(e, refer_plaint(g.plaint)) ELSE e,
     v |-> g.value]

\* refer casting its operands to int without the test before.
refer_truncating(m, e, r, c) ==
    CHOOSE x \in {refer_result(e, g) :
                     g \in {get_value(m, Zero, IntCast(r), IntCast(c))}} : TRUE

\* refer reading a Stale cell as it is, without recalculating it.
refer_cached(m, e, r, c) ==
    IF r # FromInt(IntCast(r)) \/ c # FromInt(IntCast(c))
    THEN [m |-> m, e |-> fail(e, "Non-integer cell coordinate"), v |-> Zero]
    ELSE IF /\ UnsignedLess(IntCast(r), nrows) /\ UnsignedLess(IntCast(c), ncols)
            /\ m.cells[IntCast(r)][IntCast(c)].plaint = stale
    THEN [m |-> m, e |-> e, v |-> m.cells[IntCast(r)][IntCast(c)].value]
    ELSE CHOOSE x \in {refer_result(e, g) :
                          g \in {get_value(m, Zero, IntCast(r), IntCast(c))}} : TRUE

\* refer taking its operands as column and row.
refer_transposed(m, e, r, c) ==
    IF r # FromInt(IntCast(r)) \/ c # FromInt(IntCast(c))
    THEN [m |-> m, e |-> fail(e, "Non-integer cell coordinate"), v |-> Zero]
    ELSE CHOOSE x \in {refer_result(e, g) :
                          g \in {get_value(m, Zero, IntCast(c), IntCast(r))}} : TRUE

\* refer returning at once when a plaint is latched already.
refer_short_circuit(m, e, r, c) ==
    IF e.plaint # NULL THEN [m |-> m, e |-> e, v |-> Zero]
    ELSE IF r # FromInt(IntCast(r)) \/ c # FromInt(IntCast(c))
    THEN [m |-> m, e |-> fail(e, "Non-integer cell coordinate"), v |-> Zero]
    ELSE CHOOSE x \in {refer_result(e, g) :
                          g \in {get_value(m, Zero, IntCast(r), IntCast(c))}} : TRUE

refer(m, e, r, c) ==
    IF r # FromInt(IntCast(r)) \/ c # FromInt(IntCast(c))
    THEN [m |-> m, e |-> fail(e, "Non-integer cell coordinate"), v |-> Zero]
    ELSE CHOOSE x \in {refer_result(e, g) :
                          g \in {get_value(m, Zero, IntCast(r), IntCast(c))}} : TRUE

-----------------------------------------------------------------------------
(* The cell store's writers.  A text argument is a pointer: [buf, r, c, s] *)
(* names the buffer it points into (a cell's text, the input line, a line  *)
(* of the file) and s is the string found there.                           *)

\* seen[r][c]: how many top-level get_value(r, c) returned since the last
\* edit (2 for two or more), what the first returned, and whether every
\* later one returned the same.
NoResult == [n |-> 0, plaint |-> NULL, value |-> Zero, same |-> TRUE]

text_updated(m) ==
    [m EXCEPT !.cells = [r \in Rows |-> [c \in Cols |->
                            [m.cells[r][c] EXCEPT !.plaint = stale, !.from = <<>>,
                                                   !.under = {}]]],
              !.ncalc = [r \in Rows |-> [c \in Cols |-> 0]],
              !.seen  = [r \in Rows |-> [c \in Cols |-> NoResult]]]

CellText(m, r, c) == [buf |-> "cell", r |-> r, c |-> c, s |-> m.cells[r][c].text]
Buffer(name, s)   == [buf |-> name, r |-> 0, c |-> 0, s |-> s]

\* set_text_only called: the log keeps the cell it was called for.
set_text_only_called(m, r, c) ==
    Logged(m, Event("set_text_only", r, c, "", Zero, Zero, NULL, <<>>))

\* set_text_only storing the text in the transposed cell.
set_text_only_transposed(m, r, c, text) ==
    IF text.buf = "cell" /\ text.r = r /\ text.c = c
    THEN set_text_only_called(m, r, c)
    ELSE [set_text_only_called(m, r, c)
             EXCEPT !.cells[c % nrows][r % ncols].text = text.s]

set_text_only(m, r, c, text) ==
    IF text.buf = "cell" /\ text.r = r /\ text.c = c
    THEN set_text_only_called(m, r, c)
    ELSE [set_text_only_called(m, r, c) EXCEPT !.cells[r][c].text = text.s]

\* set_text without the invalidation.
set_text_no_update(m, r, c, text) == set_text_only(m, r, c, text)

set_text(m, r, c, text) == text_updated(set_text_only(m, r, c, text))

-----------------------------------------------------------------------------
(* Loading a file: a file is a sequence of lines, a line the characters    *)
(* before its newline.                                                     *)

RECURSIVE UDec(_)
UDec(n) ==
    LET d == <<"0", "1", "2", "3", "4", "5", "6", "7", "8", "9">>[(n % 10) + 1]
    IN  IF n < 10 THEN <<d>> ELSE UDec(n \div 10) \o <<d>>

\* fprintf(file, "%u %u %s\n", r, c, text), less the newline.
FileLine(r, c, text) == UDec(r) \o <<" ">> \o UDec(c) \o <<" ">> \o text

\* sscanf's %u: blanks, an optional sign, digits.  [ok, u, rest].
ScanUnsigned(s) ==
    LET t    == skip_blanks(s)
        sign == t # <<>> /\ Head(t) \in {"+", "-"}
        u    == IF sign THEN Tail(t) ELSE t
        k    == DigitRun(u)
        v    == DigitsValue(SubSeq(u, 1, k), 0)
    IN  [ok   |-> k > 0,
         u    |-> IF sign /\ Head(t) = "-" THEN -v ELSE v,
         rest |-> SubSeq(u, k + 1, Len(u))]

\* sscanf(line, "%u %u %[^\n]", &r, &c, text): [n, r, c, text], n the count.
sscanf(line) ==
    LET a == ScanUnsigned(line)
        b == ScanUnsigned(a.rest)
        t == skip_blanks(b.rest)
    IN  IF ~a.ok THEN [n |-> 0, r |-> 0, c |-> 0, text |-> <<>>]
        ELSE IF ~b.ok THEN [n |-> 1, r |-> a.u, c |-> 0, text |-> <<>>]
        ELSE IF t = <<>> THEN [n |-> 2, r |-> a.u, c |-> b.u, text |-> <<>>]
        ELSE [n |-> 3, r |-> a.u, c |-> b.u, text |-> t]

\* read_file's loop without the test of the row and column numbers.
RECURSIVE read_lines_unchecked(_, _)
read_lines_unchecked(m, file) ==
    IF file = <<>> THEN m
    ELSE LET x  == sscanf(Head(file))
             m1 == IF x.n # 3 THEN oops(m, "Bad line in file")
                   ELSE set_text_only(m, x.r, x.c, Buffer("line", x.text))
         IN  read_lines_unchecked(m1, Tail(file))

RECURSIVE read_lines(_, _)
read_lines(m, file) ==
    IF file = <<>> THEN m
    ELSE LET x  == sscanf(Head(file))
             m1 == IF x.n # 3 THEN oops(m, "Bad line in file")
                   ELSE IF ~UnsignedLess(x.r, nrows) \/ ~UnsignedLess(x.c, ncols)
                   THEN oops(m, "Row or column number out of range in file")
                   ELSE set_text_only(m, x.r, x.c, Buffer("line", x.text))
         IN  read_lines(m1, Tail(file))

\* file = <<>> when fopen fails, else the one-element sequence of the file.
read_file(m, file) ==
    IF file = <<>> THEN oops(m, "Fresh file")
    ELSE text_updated(read_lines(m, file[1]))

\* The lines write_file prints for cell k (in row-major order) and the
\* cells after it.
RECURSIVE write_lines(_, _)
write_lines(m, k) ==
    IF k = nrows * ncols THEN <<>>
    ELSE (IF skip_blanks(m.cells[k \div ncols][k % ncols].text) # <<>>
          THEN <<FileLine(k \div ncols, k % ncols, m.cells[k \div ncols][k % ncols].text)>>
          ELSE <<>>)
         \o write_lines(m, k + 1)

\* write_file on the file `file`: committed is what edit_input returned for
\* the file name, opened whether fopen succeeded.  [m, file].
write_file(m, file, committed, opened) ==
    IF ~committed THEN [m |-> oops(m, "Aborted"), file |-> file]
    ELSE IF ~opened THEN [m |-> oops(m, "strerror(errno)"), file |-> file]
    ELSE [m |-> oops(m, "File written"), file |-> <<write_lines(m, 0)>>]

NoFile == [file |-> <<>>, from |-> <<>>]

-----------------------------------------------------------------------------
(* The display, for what it does to the store.                             *)

\* show_at after get_value returned g; seen is history.
show_at_result(g, r, c) ==
    [g.m EXCEPT !.seen[r][c] =
        IF @.n = 0
        THEN [n |-> 1, plaint |-> g.plaint, value |-> g.value, same |-> TRUE]
        ELSE [@ EXCEPT !.n = 2,
                       !.same = @ /\ g.plaint = g.m.seen[r][c].plaint
                                  /\ (g.plaint = NULL => g.value = g.m.seen[r][c].value)]]

show_at(m, r, c, v) ==
    IF v = "formulas" \/ find_formula(m.cells[r][c].text) = <<>> THEN m
    ELSE show_at_result(
             get_value(Logged(m, Event("show_at", r, c, "", Zero, Zero, NULL, <<>>)),
                       Zero, r, c),
             r, c)

\* show's two loops, from the k-th cell on.  Each show_at is evaluated before
\* the rest of the loop is entered, as the code runs it.
RECURSIVE show_from(_, _, _)
show_from(m, k, v) ==
    IF k = nrows * ncols THEN m
    ELSE CHOOSE shown \in {show_from(next, k + 1, v) :
                              next \in {show_at(m, k \div ncols, k % ncols, v)}} : TRUE

show(m, v) == show_from(m, 0, v)

-----------------------------------------------------------------------------
(* Inputs: the texts the user may commit and the files main may be given.  *)

T_empty    == <<>>
T_seven    == <<"=", "7">>
T_hello    == <<"h", "i">>
T_ref00    == <<"=", "0", "@", "0">>
T_ref01    == <<"=", " ", "0", " ", "@", " ", "1">>
T_ref10    == <<"=", "1", "@", "0">>
T_ref11    == <<"=", "1", "@", "1">>
T_self     == <<"=", "r", "@", "c">>
T_div0     == <<"=", "1", "/", "0">>
T_zero     == <<"=", "1", "/", "(", "2", "-", "2", ")">>
T_mod0     == <<"=", "0", "%", "0">>
T_arith    == <<"=", "7", "%", "4", "+", "1", "/", "4">>
T_range    == <<"=", "9", "@", "0">>
T_negative == <<"=", "-", "1", "@", "0">>
T_colrange == <<"=", "0", "@", "9">>
T_nonint   == <<"=", "1", ".", "5", "@", "0">>
T_badtoken == <<"=", "x">>
T_nofactor == <<"=", "1", "+">>
\* 0 @ (1/0): the division fails first, then @ is applied to 0 and 0.
T_refdiv0  == <<"=", "0", "@", "(", "1", "/", "0", ")">>
\* 0 @ (1 - 1/0): the division fails first, then @ is applied to 0 and 1.
T_refdiv1  == <<"=", "0", "@", "(", "1", "-", "1", "/", "0", ")">>

\* 0 @ (1/2): the column is not an integer.
T_half     == <<"=", "0", "@", "(", "1", "/", "2", ")">>

\* r and c in a formula, and r and c after a reference to cell (1, 0).
T_rc       == <<"=", "r", "*", "2", "+", "c">>
T_ref10rc  == <<"=", "1", "@", "0", "*", "1", "0", "+", "r", "*", "4", "+", "c">>

\* 1 @ (0 @ 0): the reference to the empty cell (0, 0) fails first, then @
\* is applied to 1 and 0.
T_refref   == <<"=", "1", "@", "(", "0", "@", "0", ")">>

EditTexts == {T_empty, T_seven, T_ref01}

Files ==
    { <<FileLine(0, 0, T_ref01), FileLine(0, 1, T_ref00)>>,
      <<FileLine(0, 0, T_refdiv1), FileLine(0, 1, T_ref00)>>,
      <<FileLine(0, 0, T_ref01), FileLine(0, 1, T_seven), FileLine(1, 0, T_ref11),
        FileLine(1, 1, T_hello)>>,
      <<FileLine(0, 0, T_ref01), FileLine(0, 1, T_self), FileLine(1, 0, T_ref11),
        FileLine(1, 1, T_div0)>>,
      <<FileLine(0, 0, T_ref01), FileLine(0, 1, T_nonint), FileLine(1, 0, T_ref11),
        FileLine(1, 1, T_half)>>,
      <<FileLine(0, 0, T_ref01), FileLine(0, 1, T_badtoken), FileLine(1, 0, T_ref11),
        FileLine(1, 1, T_nofactor)>>,
      <<FileLine(0, 0, T_ref01), FileLine(0, 1, T_ref10), FileLine(1, 0, T_ref00)>>,
      <<FileLine(0, 0, T_zero), FileLine(0, 1, T_mod0), FileLine(1, 0, T_arith),
        FileLine(1, 1, T_nonint)>>,
      <<FileLine(0, 0, T_refdiv0), FileLine(0, 1, T_ref11), FileLine(1, 0, T_div0),
        FileLine(1, 1, T_self)>>,
      <<FileLine(0, 0, T_range), FileLine(0, 1, T_ref00), FileLine(1, 0, T_negative),
        FileLine(1, 1, T_colrange)>>,
      <<FileLine(0, 0, T_ref10), FileLine(0, 1, T_ref10), FileLine(1, 0, T_ref01),
        FileLine(1, 1, T_seven)>>,
      <<FileLine(1, 1, T_ref01), <<"x">>, FileLine(9, 0, T_seven),
        FileLine(0, 1, T_ref10rc), FileLine(1, 0, T_rc)>> }

\* The files for the cells asked for in any order.
OrderFiles ==
    Files \cup { <<FileLine(0, 1, T_refref), FileLine(1, 0, T_ref01)>> }

(* Formulas for the evaluator alone: two infix operators over the literals *)
(* a, b and c, unary signs, and a reference next to an operator.  The last *)
(* literal stays below 3: pow(3, pow(3, 3)) is beyond TLC's integers.      *)

Lits == 0 .. MaxLit
LastLits == 0 .. 2
ArithOps == {"+", "-", "*", "/", "%", "^"}

\* `=a op1 b op2 c`
Formula2(op1, op2, a, b, c) ==
    <<"=">> \o UDec(a) \o <<" ", op1, " ">> \o UDec(b) \o <<" ", op2, " ">> \o UDec(c)

\* `= -a ^ b`
FormulaNeg(a, b) == <<"=", " ", "-">> \o UDec(a) \o <<" ", "^", " ">> \o UDec(b)

\* `= +a`
FormulaPlus(a) == <<"=", " ", "+">> \o UDec(a)

\* `=i @ j op c` and `=c op i @ j`
FormulaRefLeft(op, i, j, c) ==
    <<"=">> \o UDec(i) \o <<" ", "@", " ">> \o UDec(j) \o <<" ", op, " ">> \o UDec(c)
FormulaRefRight(op, c, i, j) ==
    <<"=">> \o UDec(c) \o <<" ", op, " ">> \o UDec(i) \o <<" ", "@", " ">> \o UDec(j)

\* `= -0 @ j`
FormulaNegRef(j) == <<"=", " ", "-", "0", " ", "@", " ">> \o UDec(j)

\* The constant the files below put in cell (r, c), other than (0, 0).
CellConst(r, c) == r * ncols + c + 1

\* A file with formula in cell (0, 0) and a constant in every other cell.
EvalFile(formula) ==
    <<FileLine(0, 0, formula)>> \o
    [k \in 1 .. (nrows * ncols - 1) |->
        FileLine(k \div ncols, k % ncols,
                 <<"=">> \o UDec(CellConst(k \div ncols, k % ncols)))]

EvalFormulas ==
    {Formula2(op1, op2, a, b, c) :
        op1 \in ArithOps, op2 \in ArithOps, a \in Lits, b \in Lits, c \in LastLits}
    \cup {FormulaNeg(a, b) : a \in Lits, b \in Lits}
    \cup {FormulaPlus(a) : a \in Lits}
    \cup {FormulaRefLeft(op, x[1], x[2], c) :
            op \in ArithOps, x \in Cells \ {<<0, 0>>}, c \in Lits}
    \cup {FormulaRefRight(op, c, x[1], x[2]) :
            op \in ArithOps, x \in Cells \ {<<0, 0>>}, c \in Lits}
    \cup {FormulaNegRef(j) : j \in Cols \ {0}}

(* Texts for saving and loading: every text of at most MaxText characters  *)
(* over a blank, `=` and a digit.                                          *)

Alphabet == {" ", "=", "7"}

RECURSIVE TextsUpTo(_)
TextsUpTo(n) ==
    IF n = 0 THEN {<<>>}
    ELSE TextsUpTo(n - 1) \cup {Append(s, ch) : s \in TextsUpTo(n - 1), ch \in Alphabet}

FileTexts == TextsUpTo(MaxText)

-----------------------------------------------------------------------------
(* The program: main, then the reactor loop.                               *)

M == [cells |-> cells, the_plaint |-> the_plaint, log |-> log,
      ncalc |-> ncalc, seen |-> seen]

Store(m) ==
    /\ cells' = m.cells
    /\ the_plaint' = m.the_plaint
    /\ log' = m.log
    /\ ncalc' = m.ncalc
    /\ seen' = m.seen

min_unclamped(x, y) == x
min(x, y) == IF x < y THEN x ELSE y
max(x, y) == IF x > y THEN x ELSE y

\* The machine state after set_up(), with the initial values of the statics.
set_up ==
    [cells |-> [r \in Rows |-> [c \in Cols |->
                  [text |-> <<>>, plaint |-> stale, value |-> Zero, from |-> <<>>,
                   under |-> {}]]],
     the_plaint |-> NULL,
     log |-> <<>>,
     ncalc |-> [r \in Rows |-> [c \in Cols |-> 0]],
     seen |-> [r \in Rows |-> [c \in Cols |-> NoResult]]]

Init ==
    /\ cells = set_up.cells
    /\ the_plaint = set_up.the_plaint
    /\ view = "values"
    /\ row = 0
    /\ col = 0
    /\ pc = "main"
    /\ log = set_up.log
    /\ ncalc = set_up.ncalc
    /\ seen = set_up.seen
    /\ last = [op |-> "set_up", r |-> 0, c |-> 0]
    /\ nedits = 0
    /\ saved = NoFile

\* main with argc = 1: no file is read.
MainNoFile ==
    /\ pc = "main"
    /\ pc' = "show"
    /\ last' = [op |-> "main", r |-> 0, c |-> 0]
    /\ UNCHANGED <<saved, cells, the_plaint, view, row, col, log, ncalc, seen, nedits>>

\* main with argc = 2: the file named is read, or cannot be opened.
MainReadFile ==
    /\ pc = "main"
    /\ \E file \in {<<>>} \cup {<<f>> : f \in Files} :
          Store(read_file(M, file))
    /\ pc' = "show"
    /\ last' = [op |-> "read_file", r |-> 0, c |-> 0]
    /\ UNCHANGED <<saved, view, row, col, nedits>>

\* One turn of reactor_loop up to get_key: show(), then the_plaint = NULL.
Show ==
    /\ pc = "show"
    /\ Store([show([M EXCEPT !.log = <<>>], view) EXCEPT !.the_plaint = NULL])
    /\ pc' = "key"
    /\ last' = [op |-> "show", r |-> row, c |-> col]
    /\ UNCHANGED <<saved, view, row, col, nedits>>

\* The key 'q'.
Quit ==
    /\ pc = "key"
    /\ pc' = "done"
    /\ last' = [op |-> "quit", r |-> row, c |-> col]
    /\ UNCHANGED <<saved, cells, the_plaint, view, row, col, log, ncalc, seen, nedits>>

\* The key ' ', the edit committed with s in the input line.
EnterText ==
    /\ pc = "key"
    /\ nedits < MaxEdits
    /\ \E s \in EditTexts : Store(set_text(M, row, col, Buffer("input", s)))
    /\ pc' = "show"
    /\ last' = [op |-> "enter_text", r |-> row, c |-> col]
    /\ nedits' = nedits + 1
    /\ UNCHANGED <<saved, view, row, col>>

\* The key ' ', the edit aborted with ctrl-G.
EnterTextAborted ==
    /\ pc = "key"
    /\ Store(oops(M, "Aborted"))
    /\ pc' = "show"
    /\ last' = [op |-> "aborted", r |-> row, c |-> col]
    /\ UNCHANGED <<saved, view, row, col, nedits>>

\* The key 'f'.
ToggleView ==
    /\ pc = "key"
    /\ view' = IF view = "formulas" THEN "values" ELSE "formulas"
    /\ pc' = "show"
    /\ last' = [op |-> "view", r |-> row, c |-> col]
    /\ UNCHANGED <<saved, cells, the_plaint, row, col, log, ncalc, seen, nedits>>

\* The arrow keys.
Arrow ==
    /\ pc = "key"
    /\ \E key \in {"left", "right", "down", "up"} :
          /\ col' = CASE key = "left"  -> max(col - 1, 0)
                      [] key = "right" -> min(col + 1, ncols - 1)
                      [] OTHER -> col
          /\ row' = CASE key = "down" -> min(row + 1, nrows - 1)
                      [] key = "up"   -> max(row - 1, 0)
                      [] OTHER -> row
          /\ last' = [op |-> key, r |-> row, c |-> col]
    /\ pc' = "show"
    /\ UNCHANGED <<saved, cells, the_plaint, view, log, ncalc, seen, nedits>>

copy_text(m, r, c) == set_text(m, r, c, CellText(m, row, col))

\* The arrow keys with ctrl held.
CtrlArrow ==
    /\ pc = "key"
    /\ nedits < MaxEdits
    /\ \E key \in {"left", "right", "down", "up"} :
          LET r == CASE key = "down" -> min(row + 1, nrows - 1)
                     [] key = "up"   -> max(row - 1, 0)
                     [] OTHER -> row
              c == CASE key = "left"  -> max(col - 1, 0)
                     [] key = "right" -> min(col + 1, ncols - 1)
                     [] OTHER -> col
          IN  /\ Store(copy_text(M, r, c))
              /\ row' = r
              /\ col' = c
              /\ last' = [op |-> "copy_text", r |-> row, c |-> col]
    /\ pc' = "show"
    /\ nedits' = nedits + 1
    /\ UNCHANGED <<saved, view>>

\* Any other key.
UnknownKey ==
    /\ pc = "key"
    /\ Store(oops(M, "Unknown key"))
    /\ pc' = "show"
    /\ last' = [op |-> "unknown", r |-> row, c |-> col]
    /\ UNCHANGED <<saved, view, row, col, nedits>>

Next ==
    \/ MainNoFile
    \/ MainReadFile
    \/ Show
    \/ Quit
    \/ EnterText
    \/ EnterTextAborted
    \/ ToggleView
    \/ Arrow
    \/ CtrlArrow
    \/ UnknownKey

Spec == Init /\ [][Next]_vars

(* The evaluator alone: main has read a file whose cell (0, 0) holds one   *)
(* of EvalFormulas, and the user only looks at the sheet.                  *)
InitEval ==
    /\ \E formula \in EvalFormulas :
          /\ cells = read_file(set_up, <<EvalFile(formula)>>).cells
          /\ the_plaint = read_file(set_up, <<EvalFile(formula)>>).the_plaint
    /\ view = "values"
    /\ row = 0
    /\ col = 0
    /\ pc = "show"
    /\ log = set_up.log
    /\ ncalc = set_up.ncalc
    /\ seen = set_up.seen
    /\ last = [op |-> "read_file", r |-> 0, c |-> 0]
    /\ nedits = 0
    /\ saved = NoFile

NextEval ==
    \/ Show
    \/ ToggleView
    \/ Quit

SpecEval == InitEval /\ [][NextEval]_vars

(* Saving and loading: the user has typed a text into cell (0, 0) and one  *)
(* into the cell under the cursor, saves with 'w', quits, and runs the     *)
(* program again on the file saved.                                        *)
InitFile ==
    /\ \E x \in Cells : \E s \in FileTexts : \E t \in FileTexts :
          /\ cells = set_text(set_text(set_up, 0, 0, Buffer("input", s)),
                              x[1], x[2], Buffer("input", t)).cells
          /\ row = x[1]
          /\ col = x[2]
          /\ last = [op |-> "enter_text", r |-> x[1], c |-> x[2]]
    /\ the_plaint = set_up.the_plaint
    /\ view = "values"
    /\ pc = "show"
    /\ log = set_up.log
    /\ ncalc = set_up.ncalc
    /\ seen = set_up.seen
    /\ nedits = 0
    /\ saved = NoFile

\* The key 'w': the file name committed or not, the file opened or not.
WriteFile ==
    /\ pc = "key"
    /\ \E committed \in BOOLEAN : \E opened \in BOOLEAN :
          /\ Store(write_file(M, saved.file, committed, opened).m)
          /\ saved' = IF committed /\ opened
                      THEN [file |-> write_file(M, saved.file, committed, opened).file,
                            from |-> Texts(M)]
                      ELSE saved
    /\ pc' = "show"
    /\ last' = [op |-> "write_file", r |-> row, c |-> col]
    /\ UNCHANGED <<view, row, col, nedits>>

\* The program run again, with the file saved as its argument: the statics
\* have their initial values, then set_up() and read_file().
MainAgain ==
    /\ pc = "done"
    /\ Store(read_file(set_up, saved.file))
    /\ view' = "values"
    /\ row' = 0
    /\ col' = 0
    /\ pc' = "show"
    /\ last' = [op |-> "read_file", r |-> 0, c |-> 0]
    /\ UNCHANGED <<saved, nedits>>

NextFile ==
    \/ Show
    \/ WriteFile
    \/ Quit
    \/ MainAgain

SpecFile == InitFile /\ [][NextFile]_vars

(* The cell store asked for its cells in any order: main has read a file,  *)
(* and show_at is called for one cell after another, each cell once, in an *)
(* order of the caller's choosing (show calls it in row-major order).      *)
InitOrder ==
    /\ \E file \in OrderFiles :
          /\ cells = read_file(set_up, <<file>>).cells
          /\ the_plaint = read_file(set_up, <<file>>).the_plaint
    /\ view = "values"
    /\ row = 0
    /\ col = 0
    /\ pc = "show_at"
    /\ log = set_up.log
    /\ ncalc = set_up.ncalc
    /\ seen = set_up.seen
    /\ last = [op |-> "read_file", r |-> 0, c |-> 0]
    /\ nedits = 0
    /\ saved = NoFile

ShowAt ==
    /\ pc = "show_at"
    /\ \E x \in Cells :
          /\ seen[x[1]][x[2]].n = 0
          /\ Store(show_at(M, x[1], x[2], view))
          /\ last' = [op |-> "show_at", r |-> x[1], c |-> x[2]]
    /\ UNCHANGED <<view, row, col, pc, nedits, saved>>

NextOrder == ShowAt

SpecOrder == InitOrder /\ [][NextOrder]_vars

-----------------------------------------------------------------------------
(* Reading the log of a render pass.                                       *)

Idx == 1 .. Len(log)

Count(i, ev) == Cardinality({j \in 1 .. i : log[j].ev = ev})

\* The calls of get_value open after event i.
Depth(i) == Count(i, "get_value") - Count(i, "return")

\* Event i is the return of a get_value that show_at called.
TopReturn(i) == log[i].ev = "return" /\ Depth(i) = 0

CellsOf(i, ev) == {<<log[j].row, log[j].col>> : j \in {k \in 1 .. i : log[k].ev = ev}}

\* The cells between recalculate's provisional write and its final one,
\* after event i.
Computing(i) == CellsOf(i, "recalculate") \ CellsOf(i, "recalculated")

AfterShow == pc = "key" /\ last.op = "show"

\* The references of the pass: <<x, y>> when the formula of cell x applied @
\* to the coordinates of cell y of the grid; with clean, only where no error
\* was latched before the application.
RefEdges(clean) ==
    {<<<<log[j].row, log[j].col>>, <<log[j].a.n, log[j].b.n>>>> :
        j \in {k \in Idx : /\ log[k].ev = "apply"
                           /\ log[k].op = "@"
                           /\ log[k].a.d = 1 /\ log[k].a.n \in Rows
                           /\ log[k].b.d = 1 /\ log[k].b.n \in Cols
                           /\ (clean => log[k].plaint = NULL)}}

\* The cells reached from those of S along edges of E.
RECURSIVE ReachFrom(_, _)
ReachFrom(E, S) ==
    LET T == S \cup {e[2] : e \in {f \in E : f[1] \in S}}
    IN  IF T = S THEN S ELSE ReachFrom(E, T)

\* The cells on a cycle of E.
OnCycle(E) ==
    {x \in Cells : x \in ReachFrom(E, {e[2] : e \in {f \in E : f[1] = x}})}

\* Every cell of the cycles of E holds Cycle, and show_at was returned Cycle
\* for it.
AllCycle(E) ==
    \A x \in OnCycle(E) :
        /\ cells[x[1]][x[2]].plaint = cycle
        /\ \A i \in Idx :
              TopReturn(i) /\ log[i].row = x[1] /\ log[i].col = x[2]
                  => log[i].plaint = cycle

-----------------------------------------------------------------------------
(* C1 as stated: after a render pass, every cell on a cycle of references  *)
(* (each cell's formula applied @ to the coordinates of the next) holds    *)
(* Cycle and a top-level get_value on it returned Cycle.                   *)
C1_Original == AfterShow => AllCycle(RefEdges(FALSE))

(* C1, amended: the same for the cycles of references applied while no     *)
(* error was latched in the referring formula; a formula that failed       *)
(* before it applied @ keeps its first error.                              *)
C1_CycleYieldsCycle == AfterShow => AllCycle(RefEdges(TRUE))

\* A pass found a cycle that it entered from a cell outside it, and a cell
\* of the cycle is not the first one of the grid.
C1_Witness ==
    /\ AfterShow
    /\ \E e \in RefEdges(TRUE) :
          /\ e[1] \notin OnCycle(RefEdges(TRUE))
          /\ e[2] \in OnCycle(RefEdges(TRUE))
          /\ cells[e[2][1]][e[2][2]].plaint = cycle
    /\ <<0, 0>> \notin OnCycle(RefEdges(TRUE))

(* C2: in every render pass, whenever a top-level get_value returns, no   *)
(* cell is left in the provisional Computing state: every recalculation    *)
(* begun during the request has made its final write of the plaint, a      *)
(* terminal status, and after the pass the store holds that status.        *)
C2_NoComputingAtReturn ==
    AfterShow =>
        /\ \A i \in Idx : TopReturn(i) =>
              /\ Computing(i) = {}
              /\ \A j \in 1 .. i : log[j].ev = "recalculated" => log[j].plaint # stale
        /\ \A j \in Idx : log[j].ev = "recalculated" =>
              cells[log[j].row][log[j].col].plaint = log[j].plaint

\* The first top-level get_value of a pass returned Cycle after three
\* recalculations nested in one another.
C2_Witness ==
    \E i \in Idx :
        /\ TopReturn(i)
        /\ Count(i, "return") = 4
        /\ log[i].plaint = cycle
        /\ Cardinality(CellsOf(i, "recalculated")) = 3

(* C3: every get_value of a render pass has returned when the pass ends,   *)
(* never nested deeper than the grid has cells; a cell is recalculated     *)
(* only when Stale, is not Stale from the moment its recalculation starts, *)
(* and is recalculated at most once between two text_updated; one pass     *)
(* (hence one top-level get_value) recalculates at most nrows * ncols      *)
(* cells.                                                                  *)
C3_RecalculatedOnce ==
    /\ \A r \in Rows : \A c \in Cols :
          /\ ncalc[r][c] <= 1
          /\ ncalc[r][c] = 1 => cells[r][c].plaint # stale
    /\ AfterShow =>
          /\ Depth(Len(log)) = 0
          /\ \A i \in Idx : Depth(i) <= nrows * ncols + 1
          /\ \A j \in Idx : log[j].ev = "recalculate" =>
                log[j].op = stale /\ log[j].plaint # stale
          /\ Count(Len(log), "recalculate") <= nrows * ncols

\* A cell asked for by two passes, recalculated by the first only, in a
\* pass that recalculated three cells.
C3_Witness ==
    /\ AfterShow
    /\ \E r \in Rows : \E c \in Cols : seen[r][c].n = 2 /\ ncalc[r][c] = 1
    /\ Cardinality({<<r, c>> \in Rows \X Cols : ncalc[r][c] = 1}) >= 3

(* C4: two top-level get_value(r, c) with no edit between them return the  *)
(* same result: the same plaint and, when there is none, the same value.   *)
C4_SameResult ==
    \A r \in Rows : \A c \in Cols : seen[r][c].same

\* A cell asked for twice since the last edit, Ok with a value other than
\* 0, while another cell asked for twice holds an error.
C4_Witness ==
    /\ \E r \in Rows : \E c \in Cols :
          seen[r][c].n = 2 /\ seen[r][c].plaint = NULL /\ seen[r][c].value # Zero
    /\ \E r \in Rows : \E c \in Cols :
          seen[r][c].n = 2 /\ seen[r][c].plaint \notin {NULL, cycle}

(* C5: no cached result survives a text change: after set_text (an edit    *)
(* committed, a ctrl-arrow copy) every cell is Stale, and in every state   *)
(* of the program a cell that is not Stale has a plaint that recalculate   *)
(* wrote when the grid held the texts it holds now.                        *)
C5_NoStaleResult ==
    /\ last.op \in {"enter_text", "copy_text", "read_file"} =>
          \A r \in Rows : \A c \in Cols : cells[r][c].plaint = stale
    /\ \A r \in Rows : \A c \in Cols :
          cells[r][c].plaint # stale => cells[r][c].from = <<Texts(M)>>

\* After an edit that left the same formula in two cells, the pass that
\* followed recalculated them to an error.
C5_Witness ==
    /\ AfterShow
    /\ nedits = 1
    /\ \E r \in Rows : \E c \in Cols :
          /\ cells[r][c].plaint \notin {stale, NULL}
          /\ cells[r][c].text # <<>>
          /\ \E r2 \in Rows : \E c2 \in Cols :
                <<r2, c2>> # <<r, c>> /\ cells[r2][c2].text = cells[r][c].text


\* <<i, j>> when text is a formula made of the one reference `i @ j`, i and
\* j integer literals with blanks allowed around them; <<>> otherwise.
SingleRef(text) ==
    LET f  == find_formula(text)
        s1 == IF f = <<>> THEN <<>> ELSE skip_blanks(f[1])
        k1 == DigitRun(s1)
        s2 == skip_blanks(SubSeq(s1, k1 + 1, Len(s1)))
        at == s2 # <<>> /\ Head(s2) = "@"
        s3 == IF at THEN skip_blanks(Tail(s2)) ELSE <<>>
        k3 == DigitRun(s3)
        s4 == skip_blanks(SubSeq(s3, k3 + 1, Len(s3)))
    IN  IF k1 > 0 /\ at /\ k3 > 0 /\ s4 = <<>>
        THEN <<DigitsValue(SubSeq(s1, 1, k1), 0), DigitsValue(SubSeq(s3, 1, k3), 0)>>
        ELSE <<>>

\* Cell (ra, ca), whose text is the single reference ref, refers to another
\* cell of the grid, and both hold a terminal status.
RefersTo(ra, ca, ref) ==
    /\ cells[ra][ca].plaint # stale
    /\ ref # <<>>
    /\ ref # <<ra, ca>>
    /\ ref[1] \in Rows /\ ref[2] \in Cols
    /\ cells[ref[1]][ref[2]].plaint # stale

\* The cell that the text of a terminal cell (ra, ca) refers to, if any.
RefOf(ra, ca) ==
    IF cells[ra][ca].plaint = stale THEN {} ELSE {SingleRef(cells[ra][ca].text)}

\* What A holds given what B holds, `nested` telling whether A was
\* recalculated while B's recalculation was in progress.
Propagated(A, B, nested) ==
    CASE B.plaint = NULL       -> A.plaint = NULL /\ A.value = B.value
      [] B.plaint = no_formula -> A.plaint = no_formula
      [] B.plaint = cycle      -> A.plaint = cycle
      [] OTHER                 -> A.plaint = IF nested THEN cycle ELSE ""

C7_OutOfRangeReported ==
    AfterShow =>
        \A j \in Idx :
            (/\ log[j].ev = "apply"
             /\ log[j].op = "@"
             /\ log[j].plaint = NULL
             /\ log[j].a.d = 1 /\ log[j].b.d = 1
             /\ (log[j].a.n \notin Rows \/ log[j].b.n \notin Cols))
            => cells[log[j].row][log[j].col].plaint = "Cell out of range"

\* The claim's arithmetic on results [plaint, value]: the first error wins.
Ok(v)  == [plaint |-> NULL, value |-> v]
Err(p) == [plaint |-> p, value |-> Zero]

Arith(op, x, y) ==
    IF x.plaint # NULL THEN x
    ELSE IF y.plaint # NULL THEN y
    ELSE CASE op = "+" -> Ok(Add(x.value, y.value))
           [] op = "-" -> Ok(Sub(x.value, y.value))
           [] op = "*" -> Ok(Mul(x.value, y.value))
           [] op = "/" -> IF y.value = Zero THEN Err("Divide by 0")
                          ELSE Ok(Div(x.value, y.value))
           [] op = "%" -> IF y.value = Zero THEN Err("Divide by 0")
                          ELSE Ok(Fmod(x.value, y.value))
           [] op = "^" -> Ok(Pow(x.value, y.value))

Lit(a) == Ok(FromInt(a))

\* The claim's table: + - bind least, then * / %, then ^, which alone
\* groups to the right.
Level(op) ==
    CASE op \in {"+", "-"}      -> 1
      [] op \in {"*", "/", "%"} -> 2
      [] op = "^"               -> 3

\* a op1 b op2 c, fully parenthesized by the table.
Grouped(op1, op2, a, b, c) ==
    IF Level(op2) > Level(op1) \/ (op1 = "^" /\ op2 = "^")
    THEN Arith(op1, Lit(a), Arith(op2, Lit(b), Lit(c)))
    ELSE Arith(op2, Arith(op1, Lit(a), Lit(b)), Lit(c))

\* Cell (0, 0) holds the result expected.
Holds(expected) ==
    /\ cells[0][0].plaint = expected.plaint
    /\ expected.plaint = NULL => cells[0][0].value = expected.value

(* C8: once cell (0, 0) is evaluated, `a op1 b op2 c` has the value of the *)
(* expression parenthesized by the table (a + b * c is a + (b * c),        *)
(* a - b - c is (a - b) - c, a ^ b ^ c is a ^ (b ^ c)), `-a ^ b` is        *)
(* (-a) ^ b, `+a` is the syntax error "expected a factor", and @ binds     *)
(* tighter than every arithmetic operator and than unary minus.            *)
C8_Precedence ==
    cells[0][0].plaint # stale =>
        /\ \A op1 \in ArithOps : \A op2 \in ArithOps :
           \A a \in Lits : \A b \in Lits : \A c \in LastLits :
              cells[0][0].text = Formula2(op1, op2, a, b, c)
                  => Holds(Grouped(op1, op2, a, b, c))
        /\ \A a \in Lits : \A b \in Lits :
              cells[0][0].text = FormulaNeg(a, b)
                  => Holds(Ok(Pow(Neg(FromInt(a)), FromInt(b))))
        /\ \A a \in Lits :
              cells[0][0].text = FormulaPlus(a)
                  => Holds(Err("Syntax error: expected a factor"))
        /\ \A op \in ArithOps : \A x \in Cells \ {<<0, 0>>} : \A c \in Lits :
              /\ cells[0][0].text = FormulaRefLeft(op, x[1], x[2], c)
                    => Holds(Arith(op, Lit(CellConst(x[1], x[2])), Lit(c)))
              /\ cells[0][0].text = FormulaRefRight(op, c, x[1], x[2])
                    => Holds(Arith(op, Lit(c), Lit(CellConst(x[1], x[2]))))
        /\ \A j \in Cols \ {0} :
              cells[0][0].text = FormulaNegRef(j) => Holds(Lit(CellConst(0, j)))

\* `= -2 ^ 2` was evaluated to 4.
C8_Witness ==
    /\ pc = "key"
    /\ cells[0][0].text = FormulaNeg(2, 2)
    /\ cells[0][0].plaint = NULL
    /\ cells[0][0].value = FromInt(4)

\* The applications of / and % to a right operand of 0 in the formula of
\* cell (r, c) during the pass.
ZeroDivisions(r, c) ==
    {j \in Idx : /\ log[j].ev = "apply"
                 /\ log[j].row = r /\ log[j].col = c
                 /\ log[j].op \in {"/", "%"}
                 /\ log[j].b = Zero}

\* How many times fail was called with plaint.
Raised(fails, plaint) == Cardinality({k \in 1 .. Len(fails) : fails[k] = plaint})

(* C9: Divide by 0 is raised exactly by the applications of / and % to a   *)
(* right operand equal to 0, and after a pass in which one was applied     *)
(* with no error latched, the cell holds Divide by 0 and get_value         *)
(* returned that to show_at.                                               *)
C9_DivideByZero ==
    /\ \A j \in Idx : log[j].ev = "recalculated" =>
          Raised(log[j].fails, "Divide by 0")
              = Cardinality(ZeroDivisions(log[j].row, log[j].col))
    /\ AfterShow =>
          \A r \in Rows : \A c \in Cols :
              (\E j \in ZeroDivisions(r, c) : log[j].plaint = NULL) =>
                  /\ cells[r][c].plaint = "Divide by 0"
                  /\ \A i \in Idx :
                        TopReturn(i) /\ log[i].row = r /\ log[i].col = c
                            => log[i].plaint = "Divide by 0"

\* One pass divided 1 by the computed zero 2 - 2, took 0 % 0, and computed
\* 7 % 4 + 1 / 4 = 13/4 without an error.
C9_Witness ==
    /\ AfterShow
    /\ \E j \in ZeroDivisions(0, 0) :
          log[j].op = "/" /\ log[j].a = FromInt(1) /\ log[j].plaint = NULL
    /\ cells[0][0].plaint = "Divide by 0"
    /\ \E j \in ZeroDivisions(0, 1) : log[j].op = "%" /\ log[j].a = Zero
    /\ cells[0][1].plaint = "Divide by 0"
    /\ cells[1][0].plaint = NULL /\ cells[1][0].value = Rat(13, 4)

\* Event j of the log is @ applied to an operand that is not an integer.
NonIntegerRef(j) ==
    /\ log[j].ev = "apply"
    /\ log[j].op = "@"
    /\ (log[j].a.d # 1 \/ log[j].b.d # 1)

(* C10: @ applied to an operand that is not an integer calls neither       *)
(* get_value nor recalculate, and when no error was latched before, the    *)
(* evaluating cell holds "Non-integer cell coordinate" after the pass.     *)
C10_NonIntegerCoordinate ==
    \A j \in Idx : NonIntegerRef(j) =>
        /\ j < Len(log)
        /\ log[j + 1].ev \notin {"get_value", "recalculate"}
        /\ (AfterShow /\ log[j].plaint = NULL) =>
              cells[log[j].row][log[j].col].plaint = "Non-integer cell coordinate"

\* A pass applied @ to a row of 3/2 and, in another cell, to a column of 1/2.
C10_Witness ==
    /\ AfterShow
    /\ \E j \in Idx :
          /\ NonIntegerRef(j) /\ log[j].a = Rat(3, 2)
          /\ cells[log[j].row][log[j].col].plaint = "Non-integer cell coordinate"
    /\ \E j \in Idx :
          /\ NonIntegerRef(j) /\ log[j].b = Rat(1, 2)
          /\ cells[log[j].row][log[j].col].plaint = "Non-integer cell coordinate"

-----------------------------------------------------------------------------
(* C11 as stated: the grid loaded from the file that write_file wrote has, *)
(* in every cell, the text the grid had when it was written.               *)
C11_RoundTrip ==
    (last.op = "read_file" /\ saved.file # <<>>) => Texts(M) = saved.from

\* The machine state after the step.
MNext == [cells |-> cells', the_plaint |-> the_plaint', log |-> log',
          ncalc |-> ncalc', seen |-> seen']

\* The step is set_text(r, c, text), text holding the string s: cell (r, c)
\* holds s, no other text changed, every cell is Stale, a second
\* set_text(r, c, text) changes nothing, and no text changed at all when
\* cell (r, c) held s already.
SetTextStep(r, c, text) ==
    /\ cells'[r][c].text = text.s
    /\ \A x \in Cells \ {<<r, c>>} : cells'[x[1]][x[2]].text = cells[x[1]][x[2]].text
    /\ \A x \in Cells : cells'[x[1]][x[2]].plaint = stale
    /\ set_text(MNext, r, c, text).cells = cells'
    /\ set_text(set_text(M, r, c, text), r, c, text).cells
          = set_text(M, r, c, text).cells
    /\ cells[r][c].text = text.s => Texts(MNext) = Texts(M)

(* C12: a committed edit is set_text(row, col, input) for some text typed  *)
(* and a ctrl-arrow is set_text on the neighbour with the focused cell's   *)
(* own string (on itself at a grid edge): the addressed cell gets the      *)
(* text, no other text changes, every cell becomes Stale, set_text is      *)
(* idempotent, and no text changes when the cell held the text already.    *)
C12_SetText ==
    [][/\ last'.op = "enter_text" =>
             /\ \E s \in EditTexts : SetTextStep(row, col, Buffer("input", s))
             /\ \A s \in EditTexts :
                    set_text(M, row, col, Buffer("input", s)).cells[row][col].text = s
       /\ last'.op = "copy_text" =>
             SetTextStep(row', col', CellText(M, row, col))
      ]_vars

\* A ctrl-arrow at a grid edge has copied a formula onto itself, in a grid
\* with three more texts.
C12_Witness ==
    /\ last.op = "copy_text"
    /\ last.r = row /\ last.c = col
    /\ cells[row][col].text = T_ref01
    /\ cells[row][col].plaint = stale
    /\ \A x \in Cells : cells[x[1]][x[2]].text # <<>>

\* The plaints a cell may end an evaluation with: none, or one error kind.
Kinds ==
    {NULL, no_formula, cycle, "",
     "Syntax error: unknown token type", "Syntax error: expected a factor",
     "Syntax error: expected ')'", "Syntax error: unexpected token",
     "Divide by 0", "Non-integer cell coordinate", "Cell out of range"}

(* C13: no assertion of the engine fails: every call of set_text_only and  *)
(* of recalculate is for a row below nrows and a column below ncols, every *)
(* call of apply is for one of the seven infix operators, and every        *)
(* recalculation ends with the cell holding no plaint or one of Kinds.     *)
C13_NoAssertionFails ==
    /\ last.op \in {"show", "enter_text", "copy_text", "read_file"} =>
          \A j \in Idx :
              /\ log[j].ev \in {"set_text_only", "recalculate"} =>
                    UnsignedLess(log[j].row, nrows) /\ UnsignedLess(log[j].col, ncols)
              /\ log[j].ev = "apply" => log[j].op \in Infix
              /\ log[j].ev = "recalculated" => log[j].plaint \in Kinds
    /\ \A x \in Cells : cells[x[1]][x[2]].plaint \in Kinds \cup {stale}

\* read_file met a line it could not parse and a line for row 9, and
\* called set_text_only for the three lines left.
C13_Witness ==
    /\ last.op = "read_file"
    /\ the_plaint = "Bad line in file"
    /\ Cardinality({j \in Idx : log[j].ev = "set_text_only"}) = 3
    /\ cells[1][1].text = T_ref01

(* C14: in every evaluation of a formula the plaint of the Evaluator       *)
(* starts NULL, the plaint the cell ends with is the one of the first call *)
(* of fail, whatever later calls of fail were made with, a plaint found    *)
(* latched when an operator is applied is still the one the cell ends      *)
(* with, and the cell ends with no plaint only if fail was never called.   *)
C14_FirstErrorWins ==
    /\ \A x \in Cells : \A f \in {T_empty, T_div0} :
          Evaluator(x[1], x[2], f).plaint = NULL
    /\ AfterShow =>
          \A k \in Idx : log[k].ev = "recalculated" =>
              /\ log[k].fails # <<>> => log[k].plaint = log[k].fails[1]
              /\ log[k].fails = <<>> => log[k].plaint \in {NULL, no_formula}
              /\ log[k].plaint = NULL => log[k].fails = <<>>
              /\ \A j \in 1 .. k :
                    (/\ log[j].ev = "apply"
                     /\ log[j].row = log[k].row /\ log[j].col = log[k].col
                     /\ log[j].plaint # NULL)
                    => log[j].plaint = log[k].plaint

\* An evaluation called fail for a division by zero, then for the cycle
\* that the reference it made next ran into, and the cell ended with
\* Divide by 0.
C14_Witness ==
    /\ AfterShow
    /\ \E k \in Idx :
          /\ log[k].ev = "recalculated"
          /\ log[k].fails = <<"Divide by 0", cycle>>
          /\ log[k].plaint = "Divide by 0"
          /\ cells[log[k].row][log[k].col].plaint = "Divide by 0"

\* Event j of the log is @ applied to the coordinates of a cell of the grid.
CellRef(j) ==
    /\ log[j].ev = "apply"
    /\ log[j].op = "@"
    /\ log[j].a.d = 1 /\ log[j].a.n \in Rows
    /\ log[j].b.d = 1 /\ log[j].b.n \in Cols

\* Event i of the log is about the cell that event j refers to.
OfTarget(i, j) == log[i].row = log[j].a.n /\ log[i].col = log[j].b.n

(* C15: in a pass, every @ applied to the coordinates of a cell of the     *)
(* grid, with or without a plaint latched in the formula applying it,      *)
(* calls get_value for that cell next, which recalculates the cell if no   *)
(* recalculation of it began earlier (it was Stale); and a plaint latched  *)
(* before the @ is the plaint the evaluating cell ends with.               *)
C15_NoShortCircuit ==
    AfterShow =>
        \A j \in Idx : CellRef(j) =>
            /\ j < Len(log)
            /\ log[j + 1].ev = "get_value" /\ OfTarget(j + 1, j)
            /\ (\A i \in 1 .. j : ~(log[i].ev = "recalculate" /\ OfTarget(i, j))) =>
                  /\ j + 1 < Len(log)
                  /\ log[j + 2].ev = "recalculate" /\ OfTarget(j + 2, j)
                  /\ log[j + 2].op = stale
            /\ cells[log[j].a.n][log[j].b.n].plaint # stale
            /\ log[j].plaint # NULL =>
                  cells[log[j].row][log[j].col].plaint = log[j].plaint

\* A formula that had latched Divide by 0 applied @ to the coordinates of
\* another cell, Stale until then, which was recalculated at once.
C15_Witness ==
    /\ AfterShow
    /\ \E j \in Idx :
          /\ CellRef(j)
          /\ log[j].plaint = "Divide by 0"
          /\ ~OfTarget(j, j)
          /\ j + 1 < Len(log)
          /\ log[j + 2].ev = "recalculate" /\ OfTarget(j + 2, j)
          /\ cells[log[j].row][log[j].col].plaint = "Divide by 0"

\* The cells recalculated in the pass, and for each the places in the log
\* where it entered and where it left the provisional Computing state.
Recalculated == CellsOf(Len(log), "recalculate")

Begin(x) ==
    CHOOSE i \in Idx :
        log[i].ev = "recalculate" /\ log[i].row = x[1] /\ log[i].col = x[2]

End(x) ==
    CHOOSE i \in Idx :
        log[i].ev = "recalculated" /\ log[i].row = x[1] /\ log[i].col = x[2]

\* The cells Computing when x enters Computing.
Open(x) == {y \in Recalculated : Begin(y) < Begin(x) /\ Begin(x) < End(y)}

(* C16: in a pass, a cell that enters Computing while another is Computing *)
(* leaves Computing before that one does; a cell enters Computing inside a *)
(* get_value that show_at called when no cell is Computing, and otherwise  *)
(* inside a get_value called for an @ of the cell that entered Computing   *)
(* last among those still Computing.                                       *)
C16_ProperlyNested ==
    AfterShow =>
        \A x \in Recalculated :
            /\ Begin(x) < End(x)
            /\ \A y \in Open(x) : End(x) < End(y)
            /\ Begin(x) > 2
            /\ log[Begin(x) - 1].ev = "get_value"
            /\ log[Begin(x) - 1].row = x[1] /\ log[Begin(x) - 1].col = x[2]
            /\ IF Open(x) = {}
               THEN log[Begin(x) - 2].ev = "show_at"
               ELSE /\ CellRef(Begin(x) - 2)
                    /\ log[Begin(x) - 2].a.n = x[1] /\ log[Begin(x) - 2].b.n = x[2]
                    /\ \E y \in Open(x) :
                          /\ log[Begin(x) - 2].row = y[1]
                          /\ log[Begin(x) - 2].col = y[2]
                          /\ \A z \in Open(x) : Begin(z) <= Begin(y)

\* Three cells were Computing at once, and left in the reverse of the
\* order they entered.
C16_Witness ==
    /\ AfterShow
    /\ \E x \in Recalculated : \E y \in Open(x) : \E z \in Open(y) :
          End(x) < End(y) /\ End(y) < End(z)

(* C17: wherever it sits, a formula `r*2+c` evaluates to twice its own     *)
(* row plus its own column, also when it is recalculated for a reference   *)
(* made by another cell; a formula `1@0*10+r*4+c`, with `r*2+c` in cell    *)
(* (1, 0), evaluates to 20 plus four times its own row plus its own        *)
(* column: r and c after the reference are its own again; and a formula    *)
(* `r@c` refers to its own cell, which is a cycle.                         *)
C17_OwnCoordinates ==
    \A x \in Cells :
        cells[x[1]][x[2]].plaint # stale =>
            /\ cells[x[1]][x[2]].text = T_rc =>
                  /\ cells[x[1]][x[2]].plaint = NULL
                  /\ cells[x[1]][x[2]].value = FromInt(2 * x[1] + x[2])
            /\ (cells[x[1]][x[2]].text = T_ref10rc /\ cells[1][0].text = T_rc) =>
                  /\ cells[x[1]][x[2]].plaint = NULL
                  /\ cells[x[1]][x[2]].value = FromInt(20 + 4 * x[1] + x[2])
            /\ cells[x[1]][x[2]].text = T_self => cells[x[1]][x[2]].plaint = cycle

\* Cell (0, 1) referred to cell (1, 0), which was recalculated for that
\* reference with r = 1 and c = 0, and then took r = 0 and c = 1.
C17_Witness ==
    /\ AfterShow
    /\ cells[0][1].text = T_ref10rc
    /\ cells[0][1].value = FromInt(21)
    /\ cells[1][0].text = T_rc
    /\ cells[1][0].value = FromInt(2)
    /\ <<0, 1>> \in cells[1][0].under

\* What a cell holds: its plaint, and its value when it has no plaint.
Result(cell) ==
    [plaint |-> cell.plaint,
     value  |-> IF cell.plaint = NULL THEN cell.value ELSE Zero]

\* The cells after show has asked for them in row-major order, from the
\* texts of the grid and every cell Stale.
RowMajor ==
    show([text_updated(M) EXCEPT !.log = <<>>, !.the_plaint = NULL], "values").cells

\* Every cell that show_at calls get_value for, the cells with a formula,
\* has been asked for.
AllSeen ==
    /\ pc = "show_at"
    /\ \A x \in Cells :
          find_formula(cells[x[1]][x[2]].text) # <<>> => seen[x[1]][x[2]].n > 0

(* C18 as stated: once every cell with a formula has been asked for, in    *)
(* whatever order, each cell holds the result that it holds after a pass   *)
(* in row-major order.                                                     *)
C18_Original ==
    AllSeen =>
        \A ref \in {RowMajor} : \A x \in Cells :
            Result(cells[x[1]][x[2]]) = Result(ref[x[1]][x[2]])

(* C18, amended: the same, except that a cell may hold Cycle in one order  *)
(* and the empty UpstreamError or NoFormula in the other.                  *)
C18_OrderIndependent ==
    AllSeen =>
        \A ref \in {RowMajor} : \A x \in Cells :
            \/ Result(cells[x[1]][x[2]]) = Result(ref[x[1]][x[2]])
            \/ {cells[x[1]][x[2]].plaint, ref[x[1]][x[2]].plaint}
                   \in {{cycle, ""}, {cycle, no_formula}}

\* The cells were asked for with cell (0, 1) last, and cell (1, 0) holds
\* NoFormula where a pass in row-major order leaves Cycle.
C18_Witness ==
    /\ AllSeen
    /\ last.op = "show_at" /\ last.r = 0 /\ last.c = 1
    /\ cells[1][0].plaint = no_formula
    /\ RowMajor[1][0].plaint = cycle
    /\ RowMajor[0][1].plaint = no_formula

-----------------------------------------------------------------------------
(* The cursor.                                                              *)

Keys == {"left", "right", "down", "up"}

\* The cell next to (r, c) in the direction of the key, as a pair; (r, c)
\* itself when that would leave the grid.
Neighbour(r, c, key) ==
    LET to == CASE key = "left"  -> <<r, c - 1>>
                [] key = "right" -> <<r, c + 1>>
                [] key = "down"  -> <<r + 1, c>>
                [] key = "up"    -> <<r - 1, c>>
    IN  IF to \in Cells THEN to ELSE <<r, c>>

(* C19: the cursor is always a cell of the grid.  An arrow key moves it to *)
(* the neighbour (nowhere at a grid edge) and changes no text, plaint or   *)
(* value.  A ctrl-arrow gives the neighbour the text of the focused cell,  *)
(* changes no other text, moves the cursor to the neighbour and leaves     *)
(* every cell Stale; at a grid edge no text changes.                       *)
C19_Cursor ==
    /\ [](row \in Rows /\ col \in Cols)
    /\ [][/\ last'.op \in Keys =>
                /\ <<row', col'>> = Neighbour(row, col, last'.op)
                /\ \A x \in Cells :
                      /\ cells'[x[1]][x[2]].text = cells[x[1]][x[2]].text
                      /\ cells'[x[1]][x[2]].plaint = cells[x[1]][x[2]].plaint
                      /\ cells'[x[1]][x[2]].value = cells[x[1]][x[2]].value
          /\ last'.op = "copy_text" =>
                /\ \E key \in Keys : <<row', col'>> = Neighbour(row, col, key)
                /\ cells'[row'][col'].text = cells[row][col].text
                /\ \A x \in Cells \ {<<row', col'>>} :
                      cells'[x[1]][x[2]].text = cells[x[1]][x[2]].text
                /\ \A x \in Cells : cells'[x[1]][x[2]].plaint = stale
                /\ <<row', col'>> = <<row, col>> => Texts(MNext) = Texts(M)
         ]_vars

\* A ctrl-arrow has copied the formula of cell (0, 0) over the formula of
\* its neighbour (0, 1), where the cursor now is.
C19_Witness ==
    /\ last.op = "copy_text"
    /\ last.r = 0 /\ last.c = 0
    /\ row = 0 /\ col = 1
    /\ cells[0][0].text = T_ref01
    /\ cells[0][1].text = T_ref01
    /\ cells[1][0].text = <<>>
    /\ \A x \in Cells : cells[x[1]][x[2]].plaint = stale

=============================================================================
